---- MODULE Spec2Model ----
(***************************************************************************)
(* KupaAsc.  Backend: PostsController -> PostsService -> PostRepository -> *)
(* ORM table of posts, and AuthController over the users table.  Every     *)
(* service call is an async function; each awaited repository call is one  *)
(* atomic store operation and the points between two awaits are            *)
(* interleaving points with the other in-flight calls.  Client: the        *)
(* PostsProvider of the web client, its reducer, localStorage and its      *)
(* async functions, each split at its awaits.                              *)
(***************************************************************************)
EXTENDS Integers, Sequences, FiniteSets, TLC

\* ---------------------------------------------------------------- bounds
\* MaxOps bounds the mutating calls of a run (creates, and updates and
\* removes that get past their guards); MaxTime bounds the store's clock.
MaxOps == 3
MaxTime == 1
\* MaxTriggers bounds the calls of the client's provider functions in a run.
MaxTriggers == 2

\* ------------------------------------------------------------ input sets
Users == {1, 2}
Times == 0..MaxTime
Reqs == 1..MaxOps

\* CreatePostDto bodies: title, content, published, and possibly a
\* client-supplied authorId that the server has to ignore.
CreateDtos ==
    {[title |-> "t1", content |-> "c1", published |-> TRUE]}
      \cup {[title |-> "t1", content |-> "c1", published |-> TRUE, authorId |-> 2]}

\* UpdatePostDto bodies: every field optional.  An empty body is rejected by
\* the ORM before any statement is issued and is not drawn.
UpdateDtos ==
    {[title |-> "t2"],
     [title |-> "t3", content |-> "c2", published |-> FALSE],
     [authorId |-> 2]}

NoDto == <<>>

\* posts    the posts table, rows in insertion (rowid) order
\* nextId   the next generated id; ids are never handed out twice
\* now      the store's clock at the latest insert
\* reqs     the update and remove calls in flight, by slot
\* last     the outcome of the latest step of a service call
\* started  the number of mutating calls admitted so far
VARIABLES posts, nextId, now, reqs, last, started

\* users     the users table, rows in insertion order
\* authLast  the outcome of the latest call of the auth controller
VARIABLES users, authLast

\* request   the HTTP request to the posts controller handled by the latest
\*           step, if that step handled one
VARIABLES request

\* storage   the browser's localStorage: the items "token" and "user"
\* state     the state held by the provider's reducer
\* calls     the provider's async functions in flight, by slot
\* mounted   whether the provider's mount effects have run
\* settled   how the latest async function to finish ended
\* triggers  the number of provider functions called so far
\* formData  the fields of CreatePostForm
VARIABLES storage, state, calls, mounted, settled, triggers, formData

postVars == <<posts, nextId, now, reqs, last, started>>
authVars == <<users, authLast>>
clientVars == <<storage, state, calls, mounted, settled, triggers, formData>>
outsidePosts == <<authVars, clientVars>>
backendVars == <<postVars, authVars, request>>
vars == <<postVars, authVars, request, clientVars>>

\* Ids a request can name: every id handed out so far and the next one,
\* which no post has had.
PostIds == 1..nextId

\* ---------------------------------------------------------- sequence helpers
RECURSIVE SelectRows(_, _, _)
SelectRows(rows, key, val) ==
    IF rows = <<>> THEN <<>>
    ELSE IF Head(rows)[key] = val
         THEN <<Head(rows)>> \o SelectRows(Tail(rows), key, val)
         ELSE SelectRows(Tail(rows), key, val)

RECURSIVE RejectRows(_, _, _)
RejectRows(rows, key, val) ==
    IF rows = <<>> THEN <<>>
    ELSE IF Head(rows)[key] = val
         THEN RejectRows(Tail(rows), key, val)
         ELSE <<Head(rows)>> \o RejectRows(Tail(rows), key, val)

\* ------------------------------------------------------------------ users
\* The author relation is selected with the public columns only.
postSelect(u) ==
    [id |-> u,
     email |-> IF u = 1 THEN "a@x.com" ELSE "b@x.com",
     firstName |-> IF u = 1 THEN "Ann" ELSE "Bob",
     lastName |-> "Doe"]

\* relations: ['author'] joins the author row onto a post row.
postRelations(row) == [f \in DOMAIN row \cup {"author"} |->
                          IF f = "author" THEN postSelect(row.authorId) ELSE row[f]]

RECURSIVE WithAuthors(_)
WithAuthors(rows) ==
    IF rows = <<>> THEN <<>>
    ELSE <<postRelations(Head(rows))>> \o WithAuthors(Tail(rows))

\* order: { createdAt: 'DESC' } -- the engine's sort is stable: rows with
\* equal keys stay in scan (rowid) order.  The rows after the head are
\* sorted first and the head is put in front of the rows whose key is not
\* greater than its own.
RECURSIVE InsertDesc(_, _)
InsertDesc(row, sorted) ==
    IF sorted = <<>> THEN <<row>>
    ELSE IF Head(sorted).createdAt > row.createdAt
         THEN <<Head(sorted)>> \o InsertDesc(row, Tail(sorted))
         ELSE <<row>> \o sorted

RECURSIVE OrderByCreatedAtDesc(_)
OrderByCreatedAtDesc(rows) ==
    IF rows = <<>> THEN <<>>
    ELSE InsertDesc(Head(rows), OrderByCreatedAtDesc(Tail(rows)))

\* ------------------------------------------------------ PostRepository
\* Faulty variant: { authorId, ...createPostDto }, the dto's key wins.
NewEntity_DtoWins(createPostDto, authorId) ==
    [f \in DOMAIN createPostDto \cup {"authorId"} |->
        IF f \in DOMAIN createPostDto THEN createPostDto[f] ELSE authorId]

\* this.postRepository.create({...createPostDto, authorId}): the spread
\* comes first, the authorId argument overrides a key of the same name.
NewEntity(createPostDto, authorId) ==
    [f \in DOMAIN createPostDto \cup {"authorId"} |->
        IF f = "authorId" THEN authorId ELSE createPostDto[f]]

\* save(post): the INSERT assigns the generated id and the creation time
\* and returns the entity with them; no relation is loaded.
SavedEntity(entity, id, time) ==
    [f \in DOMAIN entity \cup {"id", "createdAt"} |->
        IF f = "id" THEN id ELSE IF f = "createdAt" THEN time ELSE entity[f]]

RepoCreate(createPostDto, authorId, id, time) ==
    SavedEntity(NewEntity(createPostDto, authorId), id, time)

\* Faulty variant: the order option left out, rows come in scan order.
RepoFindAll_Unordered(rows) == WithAuthors(rows)

RepoFindAll(rows) == WithAuthors(OrderByCreatedAtDesc(rows))

\* findOne({where: {id}}): a sequence of zero or one post.
RepoFindById(rows, id) == WithAuthors(SelectRows(rows, "id", id))

\* Faulty variant: the where option left out.
RepoFindByAuthor_NoWhere(rows, authorId) ==
    WithAuthors(OrderByCreatedAtDesc(rows))

RepoFindByAuthor(rows, authorId) ==
    WithAuthors(OrderByCreatedAtDesc(SelectRows(rows, "authorId", authorId)))

\* Faulty variant: the row is replaced by the dto, so that the columns the
\* dto leaves out lose their values.
SetColumns_Replace(row, updatePostDto) ==
    [f \in DOMAIN row |->
        IF f \in DOMAIN updatePostDto THEN updatePostDto[f]
        ELSE IF f \in {"id", "authorId", "createdAt"} THEN row[f]
        ELSE IF f = "published" THEN FALSE ELSE ""]

\* UPDATE posts SET <every key of the dto> WHERE id = :id
SetColumns(row, updatePostDto) ==
    [f \in DOMAIN row |-> IF f \in DOMAIN updatePostDto THEN updatePostDto[f] ELSE row[f]]

\* Faulty variant: an upsert, which inserts a row when none has the id.
OrmUpdate_Upsert(rows, id, updatePostDto) ==
    IF SelectRows(rows, "id", id) = <<>>
    THEN Append(rows, SetColumns(RepoCreate([title |-> "t1", content |-> "c1", published |-> TRUE],
                                            1, id, 0),
                                 updatePostDto))
    ELSE [i \in 1..Len(rows) |->
             IF rows[i].id = id THEN SetColumns(rows[i], updatePostDto) ELSE rows[i]]

\* this.postRepository.update(id, updatePostDto): the rows with the id get
\* the columns of the dto; no row is inserted.
RECURSIVE OrmUpdate(_, _, _)
OrmUpdate(rows, id, updatePostDto) ==
    IF rows = <<>> THEN <<>>
    ELSE <<IF Head(rows).id = id THEN SetColumns(Head(rows), updatePostDto) ELSE Head(rows)>>
           \o OrmUpdate(Tail(rows), id, updatePostDto)

\* Faulty variant: the delete takes the whole table along with the row.
OrmDelete_Truncate(rows, id) ==
    IF SelectRows(rows, "id", id) = <<>> THEN rows ELSE <<>>

\* DELETE FROM posts WHERE id = :id, and result.affected
OrmDelete(rows, id) == RejectRows(rows, "id", id)
Affected(rows, id) == Len(SelectRows(rows, "id", id))

\* ------------------------------------------------------------ responses
Idle == [pc |-> "idle"]

\* In-flight calls are told apart by nothing but their slot: a new call
\* takes the first free one.
FirstFree(r) == reqs[r] = Idle /\ \A q \in Reqs : q < r => reqs[q] # Idle

\* The outcome of the latest step of a service call: the call, its caller
\* and post id, the step, the dto of a call that got past its guards, the
\* status ("pending" while the call goes on), the body (a sequence of posts),
\* and whether the call has changed the store.
Response(op, step, userId, id, dto, status, body, changed) ==
    [op |-> op, step |-> step, userId |-> userId, id |-> id, dto |-> dto,
     status |-> status, body |-> body, changed |-> changed]

\* An in-flight update or remove between two of its awaits.
Call(pc, userId, id, dto, changed) ==
    [pc |-> pc, userId |-> userId, id |-> id, dto |-> dto, changed |-> changed]

\* Faulty variants of the guards: the ownership test left out, and the
\* ownership test made first (a missing post then has no matching author).
CheckPost_NoOwnerTest(post, userId) ==
    IF Len(post) = 0 THEN "NotFound" ELSE "pass"

CheckPost_OwnerTestFirst(post, userId) ==
    IF Len(post) = 0 \/ post[1].authorId # userId THEN "Forbidden"
    ELSE "pass"

\* The two guards that open PostsService.update and PostsService.remove:
\* existence first, ownership second.
CheckPost(post, userId) ==
    IF Len(post) = 0 THEN "NotFound"
    ELSE IF post[1].authorId # userId THEN "Forbidden"
    ELSE "pass"

\* ------------------------------------------------------------------- auth
\* SignUpDto bodies.  Emails are compared as stored: "A@x.com" and "a@x.com"
\* are two addresses.
Emails == {"a@x.com", "A@x.com", "b@x.com"}
Passwords == {"pw1", "pw2"}
SignUpDtos ==
    {[email |-> e, password |-> pw, firstName |-> "Ann", lastName |-> "Doe"] :
        e \in Emails, pw \in Passwords}
LoginDtos == [email : Emails, password : Passwords]

\* hash(password) and verify(password, passwordHash): the hash is one-way,
\* modelled as a value of another kind from which verify alone can tell the
\* password.
hash(password) == [hashOf |-> password]
verify(password, passwordHash) == passwordHash = hash(password)

\* issueToken(userId): a signed value bound to the user's id.
issueToken(userId) == [sub |-> userId, signed |-> TRUE, expired |-> FALSE]

\* Faulty variant: the where option names another column.
UserFindByEmail_WrongColumn(rows, email) ==
    LET found == SelectRows(rows, "firstName", email) IN
      IF found = <<>> THEN <<>> ELSE <<Head(found)>>

\* UserRepository.findByEmail: findOne({ where: { email } })
UserFindByEmail(rows, email) ==
    LET found == SelectRows(rows, "email", email) IN
      IF found = <<>> THEN <<>> ELSE <<Head(found)>>

\* UserRepository.create: the dto's fields with the hashed password in the
\* place of the plain one, saved under a generated id.
UserCreate(signUpDto, hashedPassword, id) ==
    [f \in DOMAIN signUpDto \cup {"id"} |->
        IF f = "id" THEN id
        ELSE IF f = "password" THEN hashedPassword
        ELSE signUpDto[f]]

\* The user as it leaves the server: no password column.
PublicUser(user) ==
    [id |-> user.id, email |-> user.email,
     firstName |-> user.firstName, lastName |-> user.lastName]

AuthResponse(op, email, status, body) ==
    [op |-> op, email |-> email, status |-> status, body |-> body]

\* ----------------------------------------------------------------- client
\* A value that may be null is a sequence: <<>> for null, <<v>> for v.
Null == <<>>
Some(v) == <<v>>

\* The User of an AuthResponse, and the access token that comes with it.
ClientUser(u) == [id |-> u, email |-> IF u = 1 THEN "a@x.com" ELSE "b@x.com"]
AccessToken(u) == IF u = 1 THEN "jwt1" ELSE "jwt2"

\* JSON.stringify of a User, and JSON.parse of a stored text: the texts
\* written by JSON.stringify parse back to the user, "null" parses to
\* null, and any other text makes JSON.parse throw.
JsonStringify(user) == IF user.id = 1 THEN "{id:1}" ELSE "{id:2}"
JsonParse(text) ==
    IF text = "{id:1}" THEN [ok |-> TRUE, value |-> Some(ClientUser(1))]
    ELSE IF text = "{id:2}" THEN [ok |-> TRUE, value |-> Some(ClientUser(2))]
    ELSE IF text = "null" THEN [ok |-> TRUE, value |-> Null]
    ELSE [ok |-> FALSE, value |-> Null]

\* localStorage as the provider finds it at startup: any of the two items
\* may be missing, and the user item may hold text written by anyone.
EmptyStorage == [token |-> Null, user |-> Null]
StartupStorages ==
    [token : {Null, Some("jwt1")},
     user : {Null, Some("{id:1}"), Some("{bad"), Some("null")}]

Kinds == {"posts", "auth", "create", "update", "delete"}

initialState ==
    [posts |-> <<>>,
     user |-> Null,
     isAuthenticated |-> FALSE,
     loading |-> [k \in Kinds |-> FALSE],
     error |-> [k \in Kinds |-> Null]]

\* Posts as the client holds them.
ClientPost(id, title) == [id |-> id, title |-> title]

\* Faulty variant of the UPDATE_POST map: the response is merged into the
\* old entry, which keeps its title.
RECURSIVE MapPosts_Merge(_, _)
MapPosts_Merge(list, post) ==
    IF list = <<>> THEN <<>>
    ELSE <<IF Head(list).id = post.id THEN [post EXCEPT !.title = Head(list).title]
           ELSE Head(list)>> \o MapPosts_Merge(Tail(list), post)

\* UPDATE_POST: the entries with the id of the post are replaced by it.
RECURSIVE MapPosts(_, _)
MapPosts(list, post) ==
    IF list = <<>> THEN <<>>
    ELSE <<IF Head(list).id = post.id THEN post ELSE Head(list)>> \o MapPosts(Tail(list), post)

Action(type, payload) == [type |-> type, payload |-> payload]

\* Faulty variant of the reducer: DELETE_POST keeps the post with the id
\* and drops the others.
postsReducer_DeleteKeepsTarget(s, action) ==
    CASE action.type = "SET_POSTS" -> [s EXCEPT !.posts = action.payload]
      [] action.type = "ADD_POST" -> [s EXCEPT !.posts = <<action.payload>> \o s.posts]
      [] action.type = "UPDATE_POST" -> [s EXCEPT !.posts = MapPosts(s.posts, action.payload)]
      [] action.type = "DELETE_POST" -> [s EXCEPT !.posts = SelectRows(s.posts, "id", action.payload)]
      [] action.type = "SET_USER" ->
           [s EXCEPT !.user = action.payload, !.isAuthenticated = action.payload # Null]
      [] action.type = "SET_LOADING" ->
           [s EXCEPT !.loading[action.payload.type] = action.payload.value]
      [] action.type = "SET_ERROR" ->
           [s EXCEPT !.error[action.payload.type] = action.payload.value]
      [] action.type = "CLEAR_ERRORS" -> [s EXCEPT !.error = [k \in Kinds |-> Null]]
      [] action.type = "LOGOUT" -> initialState
      [] OTHER -> s


postsReducer(s, action) ==
    CASE action.type = "SET_POSTS" -> [s EXCEPT !.posts = action.payload]
      [] action.type = "ADD_POST" -> [s EXCEPT !.posts = <<action.payload>> \o s.posts]
      [] action.type = "UPDATE_POST" -> [s EXCEPT !.posts = MapPosts(s.posts, action.payload)]
      [] action.type = "DELETE_POST" -> [s EXCEPT !.posts = RejectRows(s.posts, "id", action.payload)]
      [] action.type = "SET_USER" ->
           [s EXCEPT !.user = action.payload, !.isAuthenticated = action.payload # Null]
      [] action.type = "SET_LOADING" ->
           [s EXCEPT !.loading[action.payload.type] = action.payload.value]
      [] action.type = "SET_ERROR" ->
           [s EXCEPT !.error[action.payload.type] = action.payload.value]
      [] action.type = "CLEAR_ERRORS" -> [s EXCEPT !.error = [k \in Kinds |-> Null]]
      [] action.type = "LOGOUT" -> initialState
      [] OTHER -> s

\* The dispatches of one handler run, in order.
RECURSIVE Dispatch(_, _)
Dispatch(s, actions) ==
    IF actions = <<>> THEN s
    ELSE Dispatch(postsReducer(s, Head(actions)), Tail(actions))

SetLoading(kind, value) == Action("SET_LOADING", [type |-> kind, value |-> value])
SetError(kind, value) == Action("SET_ERROR", [type |-> kind, value |-> value])

\* An async provider function in flight: which one, where it waits, whether
\* the auto-fetch effect called it, its argument, whether logout has been
\* called since it started, and a number that tells the order in which the
\* server calls in flight were sent (0 until it is sent).
Slots == 1..(MaxTriggers + 1)
ClientCall(fn, pc, auto, arg, stale) ==
    [fn |-> fn, pc |-> pc, auto |-> auto, arg |-> arg, stale |-> stale, no |-> 0]
ClientIdle == ClientCall("none", "idle", FALSE, 0, FALSE)
FreeSlot(cs) == CHOOSE c \in Slots : cs[c] = ClientIdle /\ \A q \in Slots : q < c => cs[q] # ClientIdle

\* How a provider function ended: its promise resolved or rejected,
\* whether the server call it made had failed, and what its last server
\* call came back with.
Settled(seq, call, response, failed, outcome) ==
    [seq |-> seq, fn |-> call.fn, auto |-> call.auto, arg |-> call.arg,
     stale |-> call.stale, no |-> call.no, response |-> response,
     failed |-> failed, outcome |-> outcome]

\* A call sends its server call: it gets a number above those of the calls
\* in flight and of the call that ended last.
Sent(call, cs) ==
    LET nos == {cs[c].no : c \in Slots} \cup {settled.no} IN
      [call EXCEPT !.no = 1 + CHOOSE n \in nos : \A k \in nos : k <= n]

\* What the server call of a function can come back with: a value, or an
\* Error carrying the message of the response.
Ok(value) == [ok |-> TRUE, value |-> value, message |-> ""]
Fail(message) == [ok |-> FALSE, value |-> Null, message |-> message]
\* The fields of CreatePostForm: as the component starts with them, and
\* as they are when the user has typed a post.
EmptyForm == [title |-> "", content |-> "", published |-> TRUE]
TypedForm == [title |-> "t1", content |-> "c1", published |-> TRUE]

\* The lists the server answers with: newest first.
ListsServed ==
    {<<ClientPost(1, "t1")>>,
     <<ClientPost(3, "t1"), ClientPost(2, "t1"), ClientPost(1, "t1")>>}
Outcomes(call) ==
    CASE call.fn \in {"login", "signup"} ->
           {Ok([access_token |-> AccessToken(call.arg), user |-> ClientUser(call.arg)]),
            Fail("Invalid credentials")}
      [] call.fn \in {"fetchPosts", "fetchMyPosts"} \/ call.pc = "refresh" ->
           {Ok(list) : list \in ListsServed} \cup {Fail("Unauthorized")}
      [] call.fn = "createPost" -> {Ok(ClientPost(4, "t1")), Fail("Unauthorized")}
      [] call.fn = "updatePost" -> {Ok(ClientPost(call.arg, "t2")), Fail("Forbidden")}
      [] call.fn = "deletePost" -> {Ok(Null), Fail("Forbidden")}
      [] OTHER -> {}

\* Faulty variant of the auto-fetch effect: no dependency list, so it runs
\* after every render of an authenticated session.
Commit_EveryRender(newState, newCalls) ==
    IF newState.isAuthenticated /\ newState # state
    THEN /\ state' = Dispatch(newState, <<SetLoading("posts", TRUE), SetError("posts", Null)>>)
         /\ calls' = [newCalls EXCEPT ![FreeSlot(newCalls)] =
                         Sent(ClientCall("fetchPosts", "await", TRUE, 0, FALSE), newCalls)]
    ELSE /\ state' = newState
         /\ calls' = newCalls

\* The render after a handler run, with the auto-fetch effect: its
\* dependency state.isAuthenticated has changed and is true, so
\* fetchPosts() is called and runs up to its await.
Commit(newState, newCalls) ==
    IF ~state.isAuthenticated /\ newState.isAuthenticated
    THEN /\ state' = Dispatch(newState, <<SetLoading("posts", TRUE), SetError("posts", Null)>>)
         /\ calls' = [newCalls EXCEPT ![FreeSlot(newCalls)] =
                         Sent(ClientCall("fetchPosts", "await", TRUE, 0, FALSE), newCalls)]
    ELSE /\ state' = newState
         /\ calls' = newCalls

\* ------------------------------------------------------------------ guard
\* The Authorization header of a request: none, or Bearer with a token that
\* is well signed and live, badly signed, or expired.
Authorizations ==
    {<<>>}
      \cup {<<issueToken(u)>> : u \in Users}
      \cup {<<[sub |-> 1, signed |-> FALSE, expired |-> FALSE]>>,
            <<[sub |-> 1, signed |-> TRUE, expired |-> TRUE]>>}

PostsRoutes == {"create", "findAll", "findByAuthor", "findOne", "update", "remove"}
Request(op, authorization) == [op |-> op, authorization |-> authorization]
NoRequest == Request("none", <<>>)

\* verifyToken(token) -> userId, or 0 for Unauthorized: the token is
\* missing, malformed, expired or signed with another key.
verifyToken(authorization) ==
    IF authorization = <<>> THEN 0
    ELSE IF ~authorization[1].signed \/ authorization[1].expired THEN 0
    ELSE authorization[1].sub

\* The guard's answer to a request it turns down: 401, no handler runs.
Unauthorized(req) ==
    /\ last' = Response(req.op, "guard", 0, 0, NoDto, "Unauthorized", <<>>, FALSE)
    /\ request' = req
    /\ UNCHANGED <<posts, nextId, now, reqs, started>>
    /\ UNCHANGED outsidePosts

\* Faulty variant: the routes are not guarded.
UseGuards_Open(req, Handler) ==
    Handler /\ request' = req

\* @UseGuards(JwtAuthGuard) on PostsController: every route's handler runs
\* only for a request whose token verifies.
UseGuards(req, Handler) ==
    IF verifyToken(req.authorization) = 0
    THEN Unauthorized(req)
    ELSE Handler /\ request' = req

BackendInit ==
    /\ posts = <<>>
    /\ nextId = 1
    /\ now = 0
    /\ reqs = [r \in Reqs |-> Idle]
    /\ last = Response("none", "done", 0, 0, NoDto, "ok", <<>>, FALSE)
    /\ started = 0
    /\ users = <<>>
    /\ authLast = AuthResponse("none", "", "ok", <<>>)
    /\ request = NoRequest

\* The provider before its mount effects, over a given localStorage.
ClientBoot(stored) ==
    /\ storage = stored
    /\ state = initialState
    /\ calls = [c \in Slots |-> ClientIdle]
    /\ mounted = FALSE
    /\ settled = Settled(0, ClientIdle, Ok(Null), FALSE, "none")
    /\ triggers = 0
    /\ formData = EmptyForm

\* The backend on its own: no client is running.
ClientOff ==
    /\ storage = EmptyStorage
    /\ state = Null
    /\ calls = <<>>
    /\ mounted = FALSE
    /\ settled = Null
    /\ triggers = 0
    /\ formData = EmptyForm

Init == BackendInit /\ ClientOff

\* PostsController.create -> PostsService.create -> PostRepository.create
\* The INSERT reads the store's clock, which never runs backwards: the time
\* of the previous insert or a later one.
Create(userId, createPostDto, time) ==
    /\ started < MaxOps
    /\ time >= now
    /\ LET post == RepoCreate(createPostDto, userId, nextId, time) IN
         /\ posts' = Append(posts, post)
         /\ last' = Response("create", "done", userId, post.id, createPostDto, "ok", <<post>>, TRUE)
    /\ nextId' = nextId + 1
    /\ now' = time
    /\ started' = started + 1
    /\ UNCHANGED reqs
    /\ UNCHANGED outsidePosts

\* PostsController.findAll -> PostsService.findAll
FindAll ==
    /\ last' = Response("findAll", "done", 0, 0, NoDto, "ok", RepoFindAll(posts), FALSE)
    /\ UNCHANGED <<posts, nextId, now, reqs, started>>
    /\ UNCHANGED outsidePosts

\* PostsController.findMyPosts -> PostsService.findByAuthor
FindMyPosts(userId) ==
    /\ last' = Response("findByAuthor", "done", userId, 0, NoDto, "ok",
                        RepoFindByAuthor(posts, userId), FALSE)
    /\ UNCHANGED <<posts, nextId, now, reqs, started>>
    /\ UNCHANGED outsidePosts

\* Faulty variant of findOne: the "not found" guard is missing, so an id
\* that is not stored is answered with an empty result.
FindOne_NoGuard(id) ==
    /\ last' = Response("findOne", "done", 0, id, NoDto, "ok", RepoFindById(posts, id), FALSE)
    /\ UNCHANGED <<posts, nextId, now, reqs, started>>
    /\ UNCHANGED outsidePosts

\* PostsController.findOne -> PostsService.findOne
FindOne(id) ==
    /\ LET post == RepoFindById(posts, id) IN
         last' = IF Len(post) = 0
                 THEN Response("findOne", "done", 0, id, NoDto, "NotFound", <<>>, FALSE)
                 ELSE Response("findOne", "done", 0, id, NoDto, "ok", post, FALSE)
    /\ UNCHANGED <<posts, nextId, now, reqs, started>>
    /\ UNCHANGED outsidePosts

\* Faulty variant of the update guards: the rejection of a caller who is not
\* the author does not stop the call before its write.
UpdateCheck_WritesWhenForbidden(r, userId, id, updatePostDto) ==
    /\ FirstFree(r)
    /\ LET verdict == CheckPost(RepoFindById(posts, id), userId) IN
         IF verdict = "pass"
         THEN /\ started < MaxOps
              /\ started' = started + 1
              /\ reqs' = [reqs EXCEPT ![r] = Call("update_write", userId, id, updatePostDto, FALSE)]
              /\ last' = Response("update", "check", userId, id, updatePostDto, "pending", <<>>, FALSE)
              /\ posts' = posts
         ELSE /\ UNCHANGED <<reqs, started>>
              /\ last' = Response("update", "check", userId, id, NoDto, verdict, <<>>, FALSE)
              /\ posts' = IF verdict = "Forbidden"
                          THEN OrmUpdate(posts, id, updatePostDto) ELSE posts
    /\ UNCHANGED <<nextId, now>>
    /\ UNCHANGED outsidePosts

\* PostsService.update, up to its first write: findById, then the two guards.
UpdateCheck(r, userId, id, updatePostDto) ==
    /\ FirstFree(r)
    /\ LET verdict == CheckPost(RepoFindById(posts, id), userId) IN
         IF verdict = "pass"
         THEN /\ started < MaxOps
              /\ started' = started + 1
              /\ reqs' = [reqs EXCEPT ![r] = Call("update_write", userId, id, updatePostDto, FALSE)]
              /\ last' = Response("update", "check", userId, id, updatePostDto, "pending", <<>>, FALSE)
         ELSE /\ UNCHANGED <<reqs, started>>
              /\ last' = Response("update", "check", userId, id, NoDto, verdict, <<>>, FALSE)
    /\ UNCHANGED <<posts, nextId, now>>
    /\ UNCHANGED outsidePosts

\* Faulty variant of the write: an update finding that another call in
\* flight has already written the same post gives way to it.
UpdateWrite_FirstWriteWins(r) ==
    /\ reqs[r].pc = "update_write"
    /\ LET c == reqs[r]
           overtaken == \E q \in Reqs : /\ reqs[q].pc = "update_reread"
                                       /\ reqs[q].id = c.id
                                       /\ reqs[q].changed
           written == IF overtaken THEN posts ELSE OrmUpdate(posts, c.id, c.dto) IN
         /\ posts' = written
         /\ reqs' = [reqs EXCEPT ![r] = Call("update_reread", c.userId, c.id, c.dto, written # posts)]
         /\ last' = Response("update", "write", c.userId, c.id, c.dto, "pending", <<>>, written # posts)
    /\ UNCHANGED <<nextId, now, started>>
    /\ UNCHANGED outsidePosts

\* PostRepository.update, first await: this.postRepository.update(id, dto)
UpdateWrite(r) ==
    /\ reqs[r].pc = "update_write"
    /\ LET c == reqs[r]
           written == OrmUpdate(posts, c.id, c.dto) IN
         /\ posts' = written
         /\ reqs' = [reqs EXCEPT ![r] = Call("update_reread", c.userId, c.id, c.dto, written # posts)]
         /\ last' = Response("update", "write", c.userId, c.id, c.dto, "pending", <<>>, written # posts)
    /\ UNCHANGED <<nextId, now, started>>
    /\ UNCHANGED outsidePosts

\* PostRepository.update, second await: findById(id); then the service's
\* "not found after update" guard.
UpdateReread(r) ==
    /\ reqs[r].pc = "update_reread"
    /\ LET c == reqs[r]
           updatedPost == RepoFindById(posts, c.id) IN
         last' = IF Len(updatedPost) = 0
                 THEN Response("update", "reread", c.userId, c.id, c.dto, "NotFound", <<>>, c.changed)
                 ELSE Response("update", "reread", c.userId, c.id, c.dto, "ok", updatedPost, c.changed)
    /\ reqs' = [reqs EXCEPT ![r] = Idle]
    /\ UNCHANGED <<posts, nextId, now, started>>
    /\ UNCHANGED outsidePosts

\* PostsService.remove, up to its write: findById, then the two guards.
RemoveCheck(r, userId, id) ==
    /\ FirstFree(r)
    /\ LET verdict == CheckPost(RepoFindById(posts, id), userId) IN
         IF verdict = "pass"
         THEN /\ started < MaxOps
              /\ started' = started + 1
              /\ reqs' = [reqs EXCEPT ![r] = Call("remove_delete", userId, id, NoDto, FALSE)]
              /\ last' = Response("remove", "check", userId, id, NoDto, "pending", <<>>, FALSE)
         ELSE /\ UNCHANGED <<reqs, started>>
              /\ last' = Response("remove", "check", userId, id, NoDto, verdict, <<>>, FALSE)
    /\ UNCHANGED <<posts, nextId, now>>
    /\ UNCHANGED outsidePosts

\* Faulty variant of remove: the test of the delete's result is missing, so
\* a delete that removed nothing is answered as a success.
RemoveDelete_NoResultTest(r) ==
    /\ reqs[r].pc = "remove_delete"
    /\ LET c == reqs[r] IN
         /\ posts' = OrmDelete(posts, c.id)
         /\ last' = Response("remove", "delete", c.userId, c.id, NoDto, "ok", <<>>,
                             Affected(posts, c.id) > 0)
    /\ reqs' = [reqs EXCEPT ![r] = Idle]
    /\ UNCHANGED <<nextId, now, started>>
    /\ UNCHANGED outsidePosts


\* PostRepository.delete and the service's "could not be deleted" guard.
RemoveDelete(r) ==
    /\ reqs[r].pc = "remove_delete"
    /\ LET c == reqs[r]
           deleted == Affected(posts, c.id) > 0 IN
         /\ posts' = OrmDelete(posts, c.id)
         /\ last' = IF deleted
                    THEN Response("remove", "delete", c.userId, c.id, NoDto, "ok", <<>>, TRUE)
                    ELSE Response("remove", "delete", c.userId, c.id, NoDto, "NotFound", <<>>, FALSE)
    /\ reqs' = [reqs EXCEPT ![r] = Idle]
    /\ UNCHANGED <<nextId, now, started>>
    /\ UNCHANGED outsidePosts

\* AuthController.signUp -> AuthService.signUp: Conflict when a user with
\* that email is stored; otherwise the user is created with the hashed
\* password and answered with a token.
SignUp(signUpDto) ==
    /\ IF UserFindByEmail(users, signUpDto.email) # <<>>
       THEN /\ authLast' = AuthResponse("signup", signUpDto.email, "Conflict", <<>>)
            /\ UNCHANGED users
       ELSE LET user == UserCreate(signUpDto, hash(signUpDto.password), Len(users) + 1) IN
              /\ users' = Append(users, user)
              /\ authLast' = AuthResponse("signup", signUpDto.email, "ok",
                     <<[access_token |-> issueToken(user.id), user |-> PublicUser(user)]>>)
    /\ UNCHANGED <<postVars, clientVars>>

\* AuthController.login -> AuthService.login: Unauthorized for an unknown
\* email or a password that does not verify.
Login(loginDto) ==
    /\ LET found == UserFindByEmail(users, loginDto.email) IN
         authLast' =
           IF found = <<>> \/ ~verify(loginDto.password, Head(found).password)
           THEN AuthResponse("login", loginDto.email, "Unauthorized", <<>>)
           ELSE AuthResponse("login", loginDto.email, "ok",
                  <<[access_token |-> issueToken(Head(found).id), user |-> PublicUser(Head(found))]>>)
    /\ UNCHANGED <<users, postVars, clientVars>>

\* ---------------------------------------------------------- client steps
\* The mount effect of PostsProvider: restore the session from localStorage.
Mount ==
    /\ ~mounted
    /\ mounted' = TRUE
    /\ LET token == storage.token
           userData == storage.user IN
         IF token # Null /\ userData # Null
         THEN LET parsed == JsonParse(userData[1]) IN
                IF parsed.ok
                THEN /\ storage' = storage
                     /\ Commit(Dispatch(state, <<Action("SET_USER", parsed.value)>>), calls)
                ELSE /\ storage' = EmptyStorage
                     /\ Commit(state, calls)
         ELSE /\ storage' = storage
              /\ Commit(state, calls)
    /\ UNCHANGED <<settled, triggers, formData>>
    /\ UNCHANGED backendVars

\* An async provider function from its call to its first await: loading on,
\* error cleared, the server call sent.
Begin(fn, kind, arg) ==
    /\ mounted
    /\ triggers < MaxTriggers
    /\ triggers' = triggers + 1
    /\ Commit(Dispatch(state, <<SetLoading(kind, TRUE), SetError(kind, Null)>>),
              [calls EXCEPT ![FreeSlot(calls)] =
                  Sent(ClientCall(fn, "await", FALSE, arg, FALSE), calls)])
    /\ UNCHANGED <<storage, mounted, settled>>
    /\ UNCHANGED backendVars

login(u) == Begin("login", "auth", u) /\ UNCHANGED formData
signup(u) == Begin("signup", "auth", u) /\ UNCHANGED formData
fetchPosts == Begin("fetchPosts", "posts", 0) /\ UNCHANGED formData
fetchMyPosts == Begin("fetchMyPosts", "posts", 0) /\ UNCHANGED formData
\* handleSubmit of CreatePostForm calls createPost with the fields typed.
createPost == Begin("createPost", "create", 0) /\ formData' = TypedForm
updatePost(id) == Begin("updatePost", "update", id) /\ UNCHANGED formData
deletePost(id) == Begin("deletePost", "delete", id) /\ UNCHANGED formData

\* Faulty variant of logout: only the token is removed from localStorage.
logout_KeepsUser ==
    /\ mounted
    /\ triggers < MaxTriggers
    /\ triggers' = triggers + 1
    /\ storage' = [storage EXCEPT !.token = Null]
    /\ Commit(Dispatch(state, <<Action("LOGOUT", Null)>>),
              [c \in Slots |-> IF calls[c] = ClientIdle THEN ClientIdle
                               ELSE [calls[c] EXCEPT !.stale = TRUE]])
    /\ settled' = Settled(settled.seq + 1, ClientCall("logout", "idle", FALSE, 0, FALSE),
                          Ok(Null), FALSE, "returned")
    /\ formData' = EmptyForm
    /\ UNCHANGED mounted
    /\ UNCHANGED backendVars

\* logout: both items removed, LOGOUT dispatched; nothing is said to the
\* calls in flight (stale only records that it happened).  The page then
\* renders AuthForm, and CreatePostForm starts anew at the next sign-in.
logout ==
    /\ mounted
    /\ triggers < MaxTriggers
    /\ triggers' = triggers + 1
    /\ storage' = EmptyStorage
    /\ Commit(Dispatch(state, <<Action("LOGOUT", Null)>>),
              [c \in Slots |-> IF calls[c] = ClientIdle THEN ClientIdle
                               ELSE [calls[c] EXCEPT !.stale = TRUE]])
    /\ settled' = Settled(settled.seq + 1, ClientCall("logout", "idle", FALSE, 0, FALSE),
                          Ok(Null), FALSE, "returned")
    /\ formData' = EmptyForm
    /\ UNCHANGED mounted
    /\ UNCHANGED backendVars

Finish(c, response, failed, outcome) ==
    /\ settled' = Settled(settled.seq + 1, calls[c], response, failed, outcome)
    /\ UNCHANGED <<mounted, triggers>>
    /\ UNCHANGED backendVars

\* login and signup after their await: token and user stored and SET_USER
\* dispatched, or the error set and thrown again; loading off.
AuthResponds(c, response) ==
    /\ calls[c].fn \in {"login", "signup"}
    /\ UNCHANGED formData
    /\ IF response.ok
       THEN /\ storage' = [token |-> Some(response.value.access_token),
                           user |-> Some(JsonStringify(response.value.user))]
            /\ Commit(Dispatch(state, <<Action("SET_USER", Some(response.value.user)),
                                        SetLoading("auth", FALSE)>>),
                      [calls EXCEPT ![c] = ClientIdle])
            /\ Finish(c, response, FALSE, "resolved")
       ELSE /\ storage' = storage
            /\ Commit(Dispatch(state, <<SetError("auth", Some(response.message)),
                                        SetLoading("auth", FALSE)>>),
                      [calls EXCEPT ![c] = ClientIdle])
            /\ Finish(c, response, TRUE, "rejected")

\* Faulty variant of the fetch functions: the catch block throws again.
FetchResponds_Rethrows(c, response) ==
    /\ calls[c].fn \in {"fetchPosts", "fetchMyPosts"}
    /\ storage' = storage
    /\ UNCHANGED formData
    /\ IF response.ok
       THEN /\ Commit(Dispatch(state, <<Action("SET_POSTS", response.value),
                                        SetLoading("posts", FALSE)>>),
                      [calls EXCEPT ![c] = ClientIdle])
            /\ Finish(c, response, FALSE, "resolved")
       ELSE /\ Commit(Dispatch(state, <<SetError("posts", Some(response.message)),
                                        SetLoading("posts", FALSE)>>),
                      [calls EXCEPT ![c] = ClientIdle])
            /\ Finish(c, response, TRUE, "rejected")

\* fetchPosts and fetchMyPosts after their await: SET_POSTS, or the error
\* set and not thrown again; loading off.
FetchResponds(c, response) ==
    /\ calls[c].fn \in {"fetchPosts", "fetchMyPosts"}
    /\ storage' = storage
    /\ UNCHANGED formData
    /\ IF response.ok
       THEN /\ Commit(Dispatch(state, <<Action("SET_POSTS", response.value),
                                        SetLoading("posts", FALSE)>>),
                      [calls EXCEPT ![c] = ClientIdle])
            /\ Finish(c, response, FALSE, "resolved")
       ELSE /\ Commit(Dispatch(state, <<SetError("posts", Some(response.message)),
                                        SetLoading("posts", FALSE)>>),
                      [calls EXCEPT ![c] = ClientIdle])
            /\ Finish(c, response, TRUE, "resolved")

\* Faulty variant of createPost: the created post is put into the
\* collection with ADD_POST before the refresh.
CreateResponds_AddsPost(c, response) ==
    /\ calls[c].fn = "createPost"
    /\ calls[c].pc = "await"
    /\ storage' = storage
    /\ UNCHANGED formData
    /\ IF response.ok
       THEN /\ Commit(Dispatch(state, <<Action("ADD_POST", response.value),
                                        SetLoading("posts", TRUE), SetError("posts", Null)>>),
                      [calls EXCEPT ![c] = Sent([calls[c] EXCEPT !.pc = "refresh"], calls)])
            /\ UNCHANGED <<settled, mounted, triggers>>
            /\ UNCHANGED backendVars
       ELSE /\ Commit(Dispatch(state, <<SetError("create", Some(response.message)),
                                        SetLoading("create", FALSE)>>),
                      [calls EXCEPT ![c] = ClientIdle])
            /\ Finish(c, response, TRUE, "rejected")


\* createPost after its first await: on success it calls fetchPosts(),
\* which runs up to its own await; on failure the error is set and thrown
\* again and loading goes off.
CreateResponds(c, response) ==
    /\ calls[c].fn = "createPost"
    /\ calls[c].pc = "await"
    /\ storage' = storage
    /\ UNCHANGED formData
    /\ IF response.ok
       THEN /\ Commit(Dispatch(state, <<SetLoading("posts", TRUE), SetError("posts", Null)>>),
                      [calls EXCEPT ![c] = Sent([calls[c] EXCEPT !.pc = "refresh"], calls)])
            /\ UNCHANGED <<settled, mounted, triggers>>
            /\ UNCHANGED backendVars
       ELSE /\ Commit(Dispatch(state, <<SetError("create", Some(response.message)),
                                        SetLoading("create", FALSE)>>),
                      [calls EXCEPT ![c] = ClientIdle])
            /\ Finish(c, response, TRUE, "rejected")

\* Faulty variant of createPost's refresh: a failure of the listAll call is
\* thrown on, so createPost's catch block sets error.create and rejects.
RefreshResponds_Rethrows(c, response) ==
    /\ calls[c].fn = "createPost"
    /\ calls[c].pc = "refresh"
    /\ storage' = storage
    /\ IF response.ok
       THEN /\ formData' = EmptyForm
            /\ Commit(Dispatch(state, <<Action("SET_POSTS", response.value),
                                        SetLoading("posts", FALSE),
                                        SetLoading("create", FALSE)>>),
                      [calls EXCEPT ![c] = ClientIdle])
            /\ Finish(c, response, FALSE, "resolved")
       ELSE /\ formData' = formData
            /\ Commit(Dispatch(state, <<SetError("posts", Some(response.message)),
                                        SetLoading("posts", FALSE),
                                        SetError("create", Some(response.message)),
                                        SetLoading("create", FALSE)>>),
                      [calls EXCEPT ![c] = ClientIdle])
            /\ Finish(c, response, FALSE, "rejected")


\* createPost after the await of its fetchPosts(): that call never throws,
\* so createPost ends in its finally block and resolves, and handleSubmit
\* of CreatePostForm goes on to reset the fields.
RefreshResponds(c, response) ==
    /\ calls[c].fn = "createPost"
    /\ calls[c].pc = "refresh"
    /\ storage' = storage
    /\ formData' = EmptyForm
    /\ Commit(Dispatch(state,
                <<IF response.ok THEN Action("SET_POSTS", response.value)
                                 ELSE SetError("posts", Some(response.message)),
                  SetLoading("posts", FALSE),
                  SetLoading("create", FALSE)>>),
              [calls EXCEPT ![c] = ClientIdle])
    /\ Finish(c, response, FALSE, "resolved")

\* updatePost after its await.
UpdateResponds(c, response) ==
    /\ calls[c].fn = "updatePost"
    /\ storage' = storage
    /\ UNCHANGED formData
    /\ IF response.ok
       THEN /\ Commit(Dispatch(state, <<Action("UPDATE_POST", response.value),
                                        SetLoading("update", FALSE)>>),
                      [calls EXCEPT ![c] = ClientIdle])
            /\ Finish(c, response, FALSE, "resolved")
       ELSE /\ Commit(Dispatch(state, <<SetError("update", Some(response.message)),
                                        SetLoading("update", FALSE)>>),
                      [calls EXCEPT ![c] = ClientIdle])
            /\ Finish(c, response, TRUE, "rejected")

\* deletePost after its await.
DeleteResponds(c, response) ==
    /\ calls[c].fn = "deletePost"
    /\ storage' = storage
    /\ UNCHANGED formData
    /\ IF response.ok
       THEN /\ Commit(Dispatch(state, <<Action("DELETE_POST", calls[c].arg),
                                        SetLoading("delete", FALSE)>>),
                      [calls EXCEPT ![c] = ClientIdle])
            /\ Finish(c, response, FALSE, "resolved")
       ELSE /\ Commit(Dispatch(state, <<SetError("delete", Some(response.message)),
                                        SetLoading("delete", FALSE)>>),
                      [calls EXCEPT ![c] = ClientIdle])
            /\ Finish(c, response, TRUE, "rejected")

\* The bodies drawn for update(id, body, userId): the guards of update do
\* not read the body, so for a call they turn down one body stands for all.
BodiesFor(userId, id) ==
    IF CheckPost(RepoFindById(posts, id), userId) = "pass"
    THEN UpdateDtos
    ELSE {[title |-> "t2"]}

\* The posts service called directly.
Next ==
    \/ (\E u \in Users, dto \in CreateDtos, t \in Times : Create(u, dto, t)) /\ UNCHANGED request
    \/ FindAll /\ UNCHANGED request
    \/ (\E u \in Users : FindMyPosts(u)) /\ UNCHANGED request
    \/ (\E id \in PostIds : FindOne(id)) /\ UNCHANGED request
    \/ (\E r \in Reqs, u \in Users, id \in PostIds :
           \E dto \in BodiesFor(u, id) : UpdateCheck(r, u, id, dto))
         /\ UNCHANGED request
    \/ (\E r \in Reqs : UpdateWrite(r)) /\ UNCHANGED request
    \/ (\E r \in Reqs : UpdateReread(r)) /\ UNCHANGED request
    \/ (\E r \in Reqs, u \in Users, id \in PostIds : RemoveCheck(r, u, id)) /\ UNCHANGED request
    \/ (\E r \in Reqs : RemoveDelete(r)) /\ UNCHANGED request

Spec == Init /\ [][Next]_vars

\* The auth controller on its own.
AuthNext ==
    \/ (\E dto \in SignUpDtos : SignUp(dto)) /\ UNCHANGED request
    \/ (\E dto \in LoginDtos : Login(dto)) /\ UNCHANGED request

AuthSpec == Init /\ [][AuthNext]_vars

\* The posts controller: every route behind the guard; the later steps of
\* an admitted update or remove belong to no new request.  What the guard
\* does is independent of the bodies, so one body per route is drawn.
GuardedCreateDtos == {[title |-> "t1", content |-> "c1", published |-> TRUE]}
GuardedUpdateDtos == {[title |-> "t2"]}

\* The guard runs before the route's parameters are read: a request it
\* turns down has one outcome whatever its id and body.
GuardedNext ==
    \/ \E a \in Authorizations :
          UseGuards(Request("create", a),
                    \E dto \in GuardedCreateDtos, t \in Times : Create(verifyToken(a), dto, t))
    \/ \E a \in Authorizations : UseGuards(Request("findAll", a), FindAll)
    \/ \E a \in Authorizations :
          UseGuards(Request("findByAuthor", a), FindMyPosts(verifyToken(a)))
    \/ \E a \in Authorizations :
          UseGuards(Request("findOne", a), \E id \in PostIds : FindOne(id))
    \/ \E a \in Authorizations :
          UseGuards(Request("update", a),
                    \E r \in Reqs, id \in PostIds, dto \in GuardedUpdateDtos :
                       UpdateCheck(r, verifyToken(a), id, dto))
    \/ \E a \in Authorizations :
          UseGuards(Request("remove", a),
                    \E r \in Reqs, id \in PostIds : RemoveCheck(r, verifyToken(a), id))
    \/ \E r \in Reqs : UpdateWrite(r) /\ request' = NoRequest
    \/ \E r \in Reqs : UpdateReread(r) /\ request' = NoRequest
    \/ \E r \in Reqs : RemoveDelete(r) /\ request' = NoRequest

GuardedSpec == Init /\ [][GuardedNext]_vars

\* The client's provider, over any localStorage and any server answers.
ClientIds == {1}

ClientNext ==
    \/ Mount
    \/ \E u \in Users : login(u)
    \/ \E u \in Users : signup(u)
    \/ logout
    \/ fetchPosts
    \/ fetchMyPosts
    \/ createPost
    \/ \E id \in ClientIds : updatePost(id)
    \/ \E id \in ClientIds : deletePost(id)
    \/ \E c \in Slots : \E response \in Outcomes(calls[c]) : AuthResponds(c, response)
    \/ \E c \in Slots : \E response \in Outcomes(calls[c]) : FetchResponds(c, response)
    \/ \E c \in Slots : \E response \in Outcomes(calls[c]) : CreateResponds(c, response)
    \/ \E c \in Slots : \E response \in Outcomes(calls[c]) : RefreshResponds(c, response)
    \/ \E c \in Slots : \E response \in Outcomes(calls[c]) : UpdateResponds(c, response)
    \/ \E c \in Slots : \E response \in Outcomes(calls[c]) : DeleteResponds(c, response)

ClientInit == BackendInit /\ \E stored \in StartupStorages : ClientBoot(stored)

ClientSpec == ClientInit /\ [][ClientNext]_vars

\* ------------------------------------------------------------- properties
StoredPost(id) == SelectRows(posts, "id", id)
Rejected == {"Forbidden", "NotFound"}

\* C1: update and remove of an existing post by a caller who is not its
\* author fail with Forbidden, never with NotFound.
C1_NonOwnerForbidden ==
    (/\ last.op \in {"update", "remove"}
     /\ last.step = "check"
     /\ Len(StoredPost(last.id)) > 0
     /\ StoredPost(last.id)[1].authorId # last.userId)
    => last.status = "Forbidden"

C1_Witness ==
    /\ last.op = "remove"
    /\ last.step = "check"
    /\ Len(StoredPost(last.id)) > 0
    /\ StoredPost(last.id)[1].authorId # last.userId
    /\ last.status = "Forbidden"

\* C2: update and remove of an id that no stored post has fail with
\* NotFound whoever calls, also a caller who owns no post at all.
C2_MissingNotFound ==
    (/\ last.op \in {"update", "remove"}
     /\ last.step = "check"
     /\ Len(StoredPost(last.id)) = 0)
    => last.status = "NotFound"

C2_Witness ==
    /\ last.op = "update"
    /\ last.step = "check"
    /\ Len(StoredPost(last.id)) = 0
    /\ Len(posts) > 0
    /\ Len(SelectRows(posts, "authorId", last.userId)) = 0
    /\ last.status = "NotFound"

\* C3: create returns and stores a post whose authorId is the caller's id,
\* whatever authorId the input fields carry.
C3_CreateAuthorIsCaller ==
    last.op = "create" =>
        /\ last.body[1].authorId = last.userId
        /\ Len(StoredPost(last.id)) = 1
        /\ StoredPost(last.id)[1].authorId = last.userId

C3_Witness ==
    /\ last.op = "create"
    /\ "authorId" \in DOMAIN last.dto
    /\ last.dto.authorId # last.userId
    /\ StoredPost(last.id)[1].authorId = last.userId

\* C4: no step changes the authorId of a stored post: it stays the id of
\* the caller that created the post.
C4_AuthorIdNeverChanges ==
    [][\A i \in 1..Len(posts), j \in 1..Len(posts') :
          posts[i].id = posts'[j].id => posts'[j].authorId = posts[i].authorId]_vars

C7_ListAllNewestFirst ==
    last.op = "findAll" =>
        /\ Len(last.body) = Len(posts)
        /\ \A i \in 1..Len(posts) :
             Cardinality({j \in 1..Len(last.body) : last.body[j].id = posts[i].id}) = 1
        /\ \A j \in 1..Len(last.body) :
             \E i \in 1..Len(posts) :
                \A f \in DOMAIN posts[i] : last.body[j][f] = posts[i][f]
        /\ \A j, k \in 1..Len(last.body) :
             j < k => last.body[j].createdAt >= last.body[k].createdAt

C7_Witness ==
    /\ last.op = "findAll"
    /\ Len(last.body) = 2
    /\ last.body[1].createdAt > last.body[2].createdAt
    /\ last.body[2].title = "t2"

\* C8: listMine(u) is listAll filtered to the posts whose authorId is u, in
\* the same order.
C8_ListMineIsFilteredListAll ==
    last.op = "findByAuthor" =>
        last.body = SelectRows(RepoFindAll(posts), "authorId", last.userId)

C8_Witness ==
    /\ last.op = "findByAuthor"
    /\ Len(last.body) = 2
    /\ Len(posts) = 3
    /\ last.body[1].createdAt > last.body[2].createdAt

\* C9: a getOne right after a create returns a post equal in every field,
\* the attached author included, to what the create returned.
C9_CreateThenGetOne ==
    last.op = "create" => RepoFindById(posts, last.id) = last.body

\* C10: the post returned by create carries the author record of the caller.
C10_CreateCarriesAuthor ==
    last.op = "create" =>
        /\ "author" \in DOMAIN last.body[1]
        /\ last.body[1].author = postSelect(last.userId)

\* C11: getOne(id) answers NotFound exactly when no stored post has that
\* id; otherwise it answers with that post, its author attached; and it
\* never changes the post store.
C11_GetOne ==
    [][last'.op = "findOne"
       => (/\ posts' = posts
           /\ (last'.status = "NotFound") <=> (Len(StoredPost(last'.id)) = 0)
           /\ last'.status \in {"NotFound", "ok"}
           /\ last'.status = "ok" =>
                 /\ Len(last'.body) = 1
                 /\ last'.body[1].id = last'.id
                 /\ \A f \in DOMAIN StoredPost(last'.id)[1] :
                       last'.body[1][f] = StoredPost(last'.id)[1][f]
                 /\ last'.body[1].author = postSelect(StoredPost(last'.id)[1].authorId))]_vars

C11_Witness ==
    /\ last.op = "findOne"
    /\ last.status = "ok"
    /\ Len(posts) = 2
    /\ last.body[1].title = "t2"
    /\ last.body[1].author.id = last.body[1].authorId

\* C12: a post removed by its owner is gone for good. The delete step takes
\* exactly that row out of the store; and an id that was handed out and is
\* no longer stored stays unstored in every later step, is answered
\* NotFound by getOne, update and remove, and is in no listAll result.
C12_DeleteIsFinal ==
    [][/\ (last'.op = "remove" /\ last'.step = "delete" /\ last'.status = "ok")
          => (/\ Len(StoredPost(last'.id)) = 1
              /\ posts' = RejectRows(posts, "id", last'.id)
              /\ Len(posts') = Len(posts) - 1
              /\ \A i \in 1..Len(posts) :
                    posts[i].id # last'.id => \E j \in 1..Len(posts') : posts'[j] = posts[i])
       /\ LET gone == (1..(nextId - 1)) \ {posts[i].id : i \in 1..Len(posts)} IN
            /\ \A j \in 1..Len(posts') : posts'[j].id \notin gone
            /\ (/\ last'.id \in gone
                /\ last'.op \in {"findOne", "update", "remove"}
                /\ last'.step # "write")
               => last'.status = "NotFound"
            /\ last'.op = "findAll"
               => \A j \in 1..Len(last'.body) : last'.body[j].id \notin gone]_vars

C12_Witness ==
    /\ last.op = "findOne"
    /\ last.id = 1
    /\ last.status = "NotFound"
    /\ nextId = 3
    /\ Len(posts) = 1
    /\ posts[1].id = 2

\* C15: two updates of one post by its owner whose guards both passed
\* before either wrote both succeed, and the later write wins.  Step by
\* step: a write sets every column of its own input whatever other update
\* of that post is in flight or has written; a re-read that still finds the
\* post answers ok with the row as it is then stored; and between the
\* writes no guard or re-read step touches the store.
C15_LastWriteWins ==
    [][\A r \in Reqs :
         /\ (reqs[r].pc = "update_write" /\ reqs'[r].pc = "update_reread")
            => \A j \in 1..Len(posts') :
                  posts'[j].id = reqs[r].id
                  => \A f \in DOMAIN reqs[r].dto : posts'[j][f] = reqs[r].dto[f]
         /\ (reqs[r].pc = "update_reread" /\ reqs'[r].pc = "idle")
            => (/\ posts' = posts
                /\ Len(StoredPost(reqs[r].id)) > 0
                   => (/\ last'.status = "ok"
                       /\ last'.body = RepoFindById(posts, reqs[r].id)))
         /\ (reqs[r].pc = "idle" /\ reqs'[r].pc = "update_write")
            => posts' = posts]_vars

C15_Witness ==
    /\ last.op = "update"
    /\ last.step = "reread"
    /\ last.status = "ok"
    /\ last.changed
    /\ last.dto = [title |-> "t3", content |-> "c2", published |-> FALSE]
    /\ last.body[1].title = "t2"
    /\ last.body[1].content = "c2"
    /\ \E q \in Reqs : /\ reqs[q].pc = "update_reread"
                       /\ reqs[q].id = last.id
                       /\ reqs[q].dto = [title |-> "t2"]
                       /\ reqs[q].changed

\* C25: an update that has passed its guards and finds its post removed
\* does not bring it back: from then on no post with that id is stored in
\* any step, the write changes nothing, and the call ends with NotFound.
C25_UpdateAfterDelete ==
    [][\A r \in Reqs :
          (/\ reqs[r].pc \in {"update_write", "update_reread"}
           /\ StoredPost(reqs[r].id) = <<>>)
          => /\ SelectRows(posts', "id", reqs[r].id) = <<>>
             /\ reqs'[r] # reqs[r]
                  => /\ posts' = posts
                     /\ last'.op = "update"
                     /\ last'.id = reqs[r].id
                     /\ last'.step = "write" => ~last'.changed
                     /\ last'.step = "reread" => last'.status = "NotFound" /\ last'.body = <<>>]_vars

C25_Witness ==
    /\ last.op = "update"
    /\ last.step = "reread"
    /\ last.status = "NotFound"
    /\ ~last.changed
    /\ StoredPost(last.id) = <<>>
    /\ nextId = 2
    /\ started = 3

\* C26: of the removes of one post that have passed their guards, the one
\* whose delete finds the post stored succeeds and takes out that post and
\* no other; after it the post is not stored, so that every other one ends
\* with NotFound and changes nothing.
C26_OneDeleteSucceeds ==
    [][\A r \in Reqs :
          (reqs[r].pc = "remove_delete" /\ reqs'[r] = Idle)
          => LET id == reqs[r].id IN
               /\ last'.op = "remove" /\ last'.id = id
               /\ last'.status = IF StoredPost(id) # <<>> THEN "ok" ELSE "NotFound"
               /\ last'.changed = (StoredPost(id) # <<>>)
               /\ posts' = SelectSeq(posts, LAMBDA p : p.id # id)
               /\ Len(posts') = Len(posts) - (IF StoredPost(id) # <<>> THEN 1 ELSE 0)
               /\ \A q \in Reqs \ {r} : reqs'[q] = reqs[q]]_vars

C26_Witness ==
    /\ last.op = "remove"
    /\ last.step = "delete"
    /\ last.status = "NotFound"
    /\ started = 3
    /\ nextId = 2
    /\ posts = <<>>
    /\ \A r \in Reqs : reqs[r] = Idle

\* C13: a signup whose email equals that of a stored user is answered
\* Conflict and stores no user; and no two stored users share an email.
C13_SignupConflict ==
    [][/\ (authLast'.op = "signup"
           /\ \E i \in 1..Len(users) : users[i].email = authLast'.email)
          => (authLast'.status = "Conflict" /\ users' = users)
       /\ \A i, j \in 1..Len(users') :
             users'[i].email = users'[j].email => i = j]_vars

C13_Witness ==
    /\ authLast.op = "signup"
    /\ authLast.status = "Conflict"
    /\ authLast.email = "a@x.com"
    /\ Len(users) = 2
    /\ users[1].email = "A@x.com"
    /\ users[2].email = "a@x.com"

\* C14: a request to any posts route that carries no token, or a token
\* that is badly signed or expired, is answered Unauthorized by the guard:
\* no handler step is taken for it and the post store, the generated ids
\* and the calls in flight stay as they were.
C14_NoTokenUnauthorized ==
    [][(/\ request'.op \in PostsRoutes
        /\ \/ request'.authorization = <<>>
           \/ ~request'.authorization[1].signed
           \/ request'.authorization[1].expired)
       => (/\ last'.op = request'.op
           /\ last'.step = "guard"
           /\ last'.status = "Unauthorized"
           /\ last'.body = <<>>
           /\ UNCHANGED <<posts, nextId, now, reqs, started>>)]_vars

C14_Witness ==
    /\ request.op = "remove"
    /\ request.authorization # <<>>
    /\ request.authorization[1].expired
    /\ last.op = "remove"
    /\ last.status = "Unauthorized"
    /\ Len(posts) = 1
    /\ posts[1].authorId = request.authorization[1].sub

\* ------------------------------------------------------ client properties
AutoFetches(cs) == {c \in Slots : cs[c].auto}
Ended == settled'.seq # settled.seq
KindOf(fn) ==
    CASE fn \in {"login", "signup"} -> "auth"
      [] fn \in {"fetchPosts", "fetchMyPosts"} -> "posts"
      [] fn = "createPost" -> "create"
      [] fn = "updatePost" -> "update"
      [] OTHER -> "delete"

\* C16: a step that takes the session from unauthenticated to
\* authenticated (login, signup, restore at startup) starts exactly one
\* automatic fetchPosts call, and no other step starts one.
C16_OneAutoFetchPerSignIn ==
    [][IF ~state.isAuthenticated /\ state'.isAuthenticated
       THEN Cardinality(AutoFetches(calls')) = Cardinality(AutoFetches(calls)) + 1
       ELSE /\ AutoFetches(calls') \subseteq AutoFetches(calls)
            /\ \A c \in AutoFetches(calls') : calls'[c] = calls[c] \/ calls'[c] = [calls[c] EXCEPT !.stale = TRUE]]_vars

C16_Witness ==
    /\ mounted
    /\ state.isAuthenticated
    /\ settled.fn = "login"
    /\ triggers = 2
    /\ Cardinality(AutoFetches(calls)) = 2

\* C17 as stated: every provider function whose server call fails sets its
\* error to the message, ends with its loading flag off, and rejects.
C17_EveryFailureRejects ==
    [][(Ended /\ settled'.failed)
       => (/\ state'.error[KindOf(settled'.fn)] # Null
           /\ ~state'.loading[KindOf(settled'.fn)]
           /\ settled'.outcome = "rejected")]_vars

\* C17: every provider function whose server call fails sets its error to
\* the message and ends with its loading flag off; login, signup,
\* createPost, updatePost and deletePost then reject, while fetchPosts and
\* fetchMyPosts resolve.
C17_FailureHandling ==
    [][(Ended /\ settled'.failed)
       => (/\ state'.error[KindOf(settled'.fn)] # Null
           /\ ~state'.loading[KindOf(settled'.fn)]
           /\ settled'.outcome =
                 IF settled'.fn \in {"fetchPosts", "fetchMyPosts"}
                 THEN "resolved" ELSE "rejected")]_vars

C17_Witness ==
    /\ settled.fn = "fetchMyPosts"
    /\ settled.failed
    /\ settled.outcome = "resolved"
    /\ state.error.posts = Some("Unauthorized")
    /\ ~state.loading.posts

\* C18: a login or signup that ends after logout was called during its
\* flight writes nothing to localStorage and does not authenticate the
\* session.
C18_LogoutWinsOverLateLogin ==
    [][(Ended /\ settled'.fn \in {"login", "signup"} /\ settled'.stale)
       => (/\ storage' = storage
           /\ ~state.isAuthenticated => ~state'.isAuthenticated)]_vars

\* C19: the restore at startup authenticates only when token and user are
\* both stored and the user text parses to a user; in every other case
\* the session is unauthenticated and both items are gone.
C19_RestoreOrPurge ==
    [][(~mounted /\ mounted')
       => IF /\ storage.token # Null
             /\ storage.user \in {Some("{id:1}"), Some("{id:2}")}
          THEN /\ state'.isAuthenticated
               /\ state'.user # Null
               /\ storage' = storage
          ELSE /\ ~state'.isAuthenticated
               /\ storage' = EmptyStorage]_vars

\* C20: after the restore, the session is authenticated with a user
\* exactly when both items are in localStorage, and isAuthenticated agrees
\* with user being non-null.
C20_SessionMatchesStorage ==
    mounted =>
        /\ (state.isAuthenticated /\ state.user # Null)
              <=> (storage.token # Null /\ storage.user # Null)
        /\ state.isAuthenticated <=> (state.user # Null)

\* The calls that wait for the server.
InFlight(cs) == {c \in Slots : cs[c] # ClientIdle}

\* C21: logout sends nothing to the server and, whatever the state it is
\* called in, leaves localStorage without token and user, the post
\* collection empty and the session unauthenticated with no user.
C21_Logout ==
    [][(Ended /\ settled'.fn = "logout")
       => (/\ storage' = EmptyStorage
           /\ state'.posts = <<>>
           /\ ~state'.isAuthenticated
           /\ state'.user = Null
           /\ InFlight(calls') = InFlight(calls)
           /\ \A c \in Slots : calls'[c].fn = calls[c].fn /\ calls'[c].pc = calls[c].pc)]_vars

C21_Witness ==
    /\ settled.fn = "logout"
    /\ storage = EmptyStorage
    /\ state = initialState
    /\ \E c \in Slots : calls[c].fn = "fetchPosts" /\ calls[c].auto /\ calls[c].stale


\* C22: when deletePost(id) ends with success, the collection holds no
\* post with that id and holds all the other posts it held before, as they
\* were and in the order they were in.
C22_DeleteRemovesThatPostOnly ==
    [][(Ended /\ settled'.fn = "deletePost" /\ ~settled'.failed)
       => (/\ \A i \in 1..Len(state'.posts) : state'.posts[i].id # settled'.arg
           /\ state'.posts = SelectSeq(state.posts, LAMBDA p : p.id # settled'.arg))]_vars

C22_Witness ==
    /\ settled.fn = "deletePost"
    /\ ~settled.failed
    /\ settled.arg = 1
    /\ state.posts = <<ClientPost(3, "t1"), ClientPost(2, "t1")>>


\* C23: when updatePost ends with success, the entry of the collection
\* with the id of the returned post is that post exactly, every other entry
\* is as it was, and length and order of the collection are unchanged.
C23_UpdateReplacesEntry ==
    [][(Ended /\ settled'.fn = "updatePost" /\ ~settled'.failed)
       => LET post == settled'.response.value IN
            /\ Len(state'.posts) = Len(state.posts)
            /\ \A i \in 1..Len(state.posts) :
                  state'.posts[i] = IF state.posts[i].id = post.id THEN post
                                    ELSE state.posts[i]]_vars

C23_Witness ==
    /\ settled.fn = "updatePost"
    /\ ~settled.failed
    /\ state.posts = <<ClientPost(3, "t1"), ClientPost(2, "t1"), ClientPost(1, "t2")>>


\* C24: a createPost whose create call succeeds leaves the collection as
\* it is and sends the listAll call, and when that call succeeds the
\* collection becomes its result as served; a createPost whose create call
\* fails ends there, with the collection as it was and no call sent.  A
\* listAll of createPost is sent by no other step.
C24_CreateThenRefresh ==
    [][\A c \in Slots :
          /\ (calls[c].fn = "createPost" /\ calls[c].pc = "await" /\ calls'[c].pc # "await")
                => /\ state'.posts = state.posts
                   /\ \A q \in Slots \ {c} : calls'[q] = calls[q]
                   /\ IF Ended
                      THEN settled'.failed /\ calls'[c] = ClientIdle
                      ELSE /\ calls'[c].pc = "refresh"
                           /\ [calls'[c] EXCEPT !.pc = "await", !.no = 0]
                                 = [calls[c] EXCEPT !.no = 0]
          /\ (calls[c].pc = "refresh" /\ calls'[c].pc # "refresh")
                => /\ Ended /\ settled'.fn = "createPost" /\ calls'[c] = ClientIdle
                   /\ state'.posts = IF settled'.response.ok THEN settled'.response.value
                                     ELSE state.posts
          /\ (calls'[c].pc = "refresh" /\ calls[c].pc # "refresh")
                => calls[c].fn = "createPost" /\ calls[c].pc = "await"]_vars

C24_Witness ==
    /\ settled.fn = "createPost"
    /\ ~settled.failed
    /\ settled.response.ok
    /\ ~settled.stale
    /\ state.posts = settled.response.value
    /\ Len(state.posts) = 3
    /\ \A c \in Slots : calls[c] = ClientIdle


\* C27: a call that ends after logout was called during its flight, in a
\* session that is unauthenticated, leaves the post collection empty.
C27_NoPostsAfterLogout ==
    [][(Ended /\ settled'.stale /\ ~state'.isAuthenticated) => state'.posts = <<>>]_vars


\* C28: createPost rejects exactly when its create call fails.  When the
\* create call has succeeded, createPost resolves and the form is reset
\* whatever the listAll call comes back with; when that call fails,
\* error.posts holds its message, and error.create and the collection are
\* left as they were.  When the create call fails, the form keeps its
\* fields.
C28_CreateFailureSignal ==
    [][\A c \in Slots :
          (calls[c].fn = "createPost" /\ calls'[c] = ClientIdle)
          => /\ Ended
             /\ settled'.fn = "createPost"
             /\ IF calls[c].pc = "await"
                THEN /\ ~settled'.response.ok
                     /\ settled'.outcome = "rejected"
                     /\ state'.error.create = Some(settled'.response.message)
                     /\ formData' = formData
                ELSE /\ settled'.outcome = "resolved"
                     /\ formData' = EmptyForm
                     /\ state'.error.create = state.error.create
                     /\ ~settled'.response.ok
                          => /\ state'.error.posts = Some(settled'.response.message)
                             /\ state'.posts = state.posts]_vars

C28_Witness ==
    /\ settled.fn = "createPost"
    /\ settled.outcome = "resolved"
    /\ ~settled.response.ok
    /\ ~settled.stale
    /\ state.error.create = Null
    /\ state.error.posts = Some("Unauthorized")
    /\ Len(state.posts) = 3
    /\ formData = EmptyForm


\* The loading flags a call in flight stands for: createPost waiting for
\* its fetchPosts() is a call of kind create and of kind posts.
KindsInFlight(call) ==
    IF call = ClientIdle THEN {}
    ELSE IF call.pc = "refresh" THEN {"create", "posts"}
    ELSE {KindOf(call.fn)}

\* C29: for every kind, the loading flag is true exactly when a call of
\* that kind is in flight.
C29_LoadingMatchesInFlight ==
    \A k \in Kinds : state.loading[k] <=> \E c \in Slots : k \in KindsInFlight(calls[c])


\* C30: when two refreshes overlap, the one sent last decides the
\* collection: a refresh that returns after a refresh sent later than it
\* has returned leaves the collection as that later one set it.
C30_LastTriggeredRefreshWins ==
    [][(/\ Ended
        /\ settled.fn \in {"fetchPosts", "fetchMyPosts"}
        /\ settled'.fn \in {"fetchPosts", "fetchMyPosts"}
        /\ settled'.no < settled.no
        /\ settled.response.ok /\ settled'.response.ok
        /\ ~settled.stale /\ ~settled'.stale
        /\ state.posts = settled.response.value)
       => state'.posts = settled.response.value]_vars

====
